---------------------------- MODULE Spec2Model ----------------------------
(***************************************************************************)
(* AthenaHook (airflow/providers/amazon/aws/hooks/athena.py) as a state    *)
(* machine: one hook instance issuing calls against the remote Athena      *)
(* client.  The remote client is the environment: every request it         *)
(* receives is answered by one of the outcomes boto3 can produce (an       *)
(* exception, or a response dict with or without the nested keys), and an  *)
(* execution is reported in any of the service's states at every fetch.    *)
(***************************************************************************)
EXTENDS Integers, Sequences, FiniteSets, TLC

(* ------------------------------ bounds --------------------------------- *)
\* largest max_polling_attempts a caller passes
MaxAttempts == 2
\* cap on try_number, so that a poll without a budget stays finite
MaxTry == 3

(* ---------------------------- class constants -------------------------- *)
INTERMEDIATE_STATES == {"QUEUED", "RUNNING"}
\* the tuple with "CANCELLED" left out
FAILURE_STATES_without_cancelled == {"FAILED"}
FAILURE_STATES == {"FAILED", "CANCELLED"}
SUCCESS_STATES == {"SUCCEEDED"}
\* the tuple with "CANCELLED" left out
TERMINAL_STATES_without_cancelled == {"SUCCEEDED", "FAILED"}
TERMINAL_STATES == {"SUCCEEDED", "FAILED", "CANCELLED"}

\* the states the service reports (Athena QueryExecutionState)
QueryStates == {"QUEUED", "RUNNING", "SUCCEEDED", "FAILED", "CANCELLED"}

\* Python's None, for the string-valued results
None == "None"

(* ------------------------------- inputs -------------------------------- *)
ExecIds == {"q1", "q2"}
\* what a caller may pass as query_execution_id: an id, "" or None
IdArgs == ExecIds \cup {"", None}
Queries == {"SELECT 1", "SELECT 2"}
QueryContexts == {[Database |-> "db"]}
ResultConfigurations == {[OutputLocation |-> "s3://out/"]}
\* client_request_token: None (the default), "" or a token
Tokens == {None, "", "tok"}
Workgroups == {"primary", "wg"}
\* max_polling_attempts: {} is None (the default), {n} is the integer n
Budgets == {{}} \cup {{n} : n \in (-1)..MaxAttempts}
SleepTimes == {0, 30}

VARIABLES
    sleep_time,         \* self.sleep_time
    log_query,          \* self.log_query
    op,                 \* the method called last ("none" before any call)
    args,               \* its arguments
    pc,                 \* "idle", "check", "sleep", "returned", "raised"
    result,             \* the value returned (None if it raised)
    error,              \* the exception raised ("none" if it returned)
    requests,           \* requests sent to the remote client in this call
    logs,               \* log levels emitted in this call
    response,           \* the client's answer to the call's first request; in a
                        \* poll, to the latest status check
    query_state,        \* what check_query_status gave inside this call
    try_number,         \* poll_query_status local
    final_query_state,  \* poll_query_status local
    observed,           \* results of the status checks of this poll
    sleeps,             \* durations slept in this poll
    stopped             \* status checks this poll had made when another hook's
                        \* stop_query on its execution was accepted; -1: none

vars == <<sleep_time, log_query, op, args, pc, result, error, requests,
          logs, response, query_state, try_number, final_query_state, observed, sleeps,
          stopped>>

config == <<sleep_time, log_query>>
locals == <<try_number, final_query_state, observed, sleeps>>

(* --------------------- the remote client's answers --------------------- *)
\* nested keys of the get_query_execution response, and each key's parent
ResponseKeys == {"QueryExecution", "Status", "State", "StateChangeReason",
                 "ResultConfiguration", "OutputLocation"}

ParentKey(k) ==
    CASE k = "Status" -> "QueryExecution"
      [] k = "State" -> "Status"
      [] k = "StateChangeReason" -> "Status"
      [] k = "ResultConfiguration" -> "QueryExecution"
      [] k = "OutputLocation" -> "ResultConfiguration"
      [] OTHER -> k

\* the shapes of a response dict: any set of keys in which a nested key comes
\* with the keys it is nested under; the empty set is the empty dict
ResponseShapes == {ks \in SUBSET ResponseKeys : \A k \in ks : ParentKey(k) \in ks}

\* before any fetch
NoResponse ==
    [raised |-> FALSE, keys |-> {}, State |-> None, StateChangeReason |-> None,
     OutputLocation |-> None]

OutputLocationOf(e) == IF e = "q1" THEN "s3://out/q1" ELSE "s3://out/q2"

\* get_query_execution(QueryExecutionId=e): raises, or returns a dict; the
\* execution is in whatever state the service has brought it to by now
GetQueryExecution(e) ==
    {[raised |-> TRUE, keys |-> {}, State |-> None, StateChangeReason |-> None,
      OutputLocation |-> None]}
    \cup
    {[raised |-> FALSE, keys |-> ks,
      State |-> IF "State" \in ks THEN s ELSE None,
      StateChangeReason |-> IF "StateChangeReason" \in ks THEN "reason" ELSE None,
      OutputLocation |-> IF "OutputLocation" \in ks THEN OutputLocationOf(e) ELSE None]
       : ks \in ResponseShapes, s \in QueryStates}

\* resp[k1][k2][k3]: the value, or KeyError when a key on the way is missing
Lookup(resp, k1, k2, k3) ==
    IF {k1, k2, k3} \subseteq resp.keys
    THEN [exc |-> "none", val |-> resp[k3]]
    ELSE [exc |-> "KeyError", val |-> None]

\* bool(resp) of a dict: the empty dict is falsy
Truthy(resp) == resp.keys # {}

GetQueryExecutionRequest(e) == [api |-> "get_query_execution", QueryExecutionId |-> e]

(* --------------------------- check_query_status ------------------------ *)
\* the method on a given answer f of the client: the fetch is outside the
\* try block, the lookup inside it
check_query_status(f) ==
    IF f.raised
    THEN [exc |-> "ClientError", val |-> None, logs |-> <<>>]
    ELSE LET state == Lookup(f, "QueryExecution", "Status", "State")
         IN IF state.exc # "none"
            THEN [exc |-> "none", val |-> None, logs |-> <<"exception">>]
            ELSE [exc |-> "none", val |-> state.val, logs |-> <<>>]

Idle == pc = "idle"
Finished == pc \in {"returned", "raised"}

NoLocals ==
    /\ try_number' = 1
    /\ final_query_state' = None
    /\ observed' = <<>>
    /\ sleeps' = <<>>
    /\ stopped' = -1

\* a call that runs to its end in one step: what it leaves behind
Completes(o, a, reqs, lg, resp, qs, res, err) ==
    /\ op' = o
    /\ args' = a
    /\ requests' = reqs
    /\ logs' = lg
    /\ response' = resp
    /\ query_state' = qs
    /\ result' = res
    /\ error' = err
    /\ pc' = IF err = "none" THEN "returned" ELSE "raised"
    /\ NoLocals
    /\ UNCHANGED config

CheckQueryStatus ==
    /\ Idle
    /\ \E e \in ExecIds : \E f \in GetQueryExecution(e) :
         LET r == check_query_status(f) IN
         Completes("check_query_status", [query_execution_id |-> e],
                   <<GetQueryExecutionRequest(e)>>, r.logs, f, None, r.val, r.exc)

(* ------------------------------- run_query ----------------------------- *)
\* ClientRequestToken put into the dict whatever it is
RunQueryParams_always_token(query, query_context, result_configuration, client_request_token, workgroup) ==
    [QueryString |-> query,
     QueryExecutionContext |-> query_context,
     ResultConfiguration |-> result_configuration,
     WorkGroup |-> workgroup,
     ClientRequestToken |-> client_request_token]

\* the params dict: ClientRequestToken is added only for a truthy token
RunQueryParams(query, query_context, result_configuration, client_request_token, workgroup) ==
    LET params == [QueryString |-> query,
                   QueryExecutionContext |-> query_context,
                   ResultConfiguration |-> result_configuration,
                   WorkGroup |-> workgroup]
    IN IF client_request_token \notin {None, ""}
       THEN params @@ ("ClientRequestToken" :> client_request_token)
       ELSE params

\* start_query_execution(**params): raises, or returns a dict with or without
\* the QueryExecutionId key
StartQueryExecution ==
    {[raised |-> TRUE, keys |-> {}, QueryExecutionId |-> None],
     [raised |-> FALSE, keys |-> {}, QueryExecutionId |-> None]}
    \cup
    {[raised |-> FALSE, keys |-> {"QueryExecutionId"}, QueryExecutionId |-> e]
       : e \in ExecIds}

\* a failed submit tried once more before the error is let through
RunQuery_retries ==
    /\ Idle
    /\ \E query \in Queries, query_context \in QueryContexts,
          result_configuration \in ResultConfigurations,
          client_request_token \in Tokens, workgroup \in Workgroups :
       \E f \in StartQueryExecution, f2 \in StartQueryExecution :
         LET params == RunQueryParams(query, query_context, result_configuration,
                                      client_request_token, workgroup)
             a == [query |-> query, query_context |-> query_context,
                   result_configuration |-> result_configuration,
                   client_request_token |-> client_request_token,
                   workgroup |-> workgroup]
             reqs == <<[api |-> "start_query_execution", params |-> params]>>
             lg == IF log_query THEN <<"info">> ELSE <<>>
         IN IF f.raised
            THEN IF f2.raised \/ "QueryExecutionId" \notin f2.keys
                 THEN Completes("run_query", a, reqs \o reqs, lg, f, None, None,
                                "ClientError")
                 ELSE Completes("run_query", a, reqs \o reqs, lg \o <<"info">>, f, None,
                                f2.QueryExecutionId, "none")
            ELSE IF "QueryExecutionId" \notin f.keys
            THEN Completes("run_query", a, reqs, lg, f, None, None, "KeyError")
            ELSE Completes("run_query", a, reqs, lg \o <<"info">>, f, None,
                           f.QueryExecutionId, "none")

RunQuery ==
    /\ Idle
    /\ \E query \in Queries, query_context \in QueryContexts,
          result_configuration \in ResultConfigurations,
          client_request_token \in Tokens, workgroup \in Workgroups :
       \E f \in StartQueryExecution :
         LET params == RunQueryParams(query, query_context, result_configuration,
                                      client_request_token, workgroup)
             a == [query |-> query, query_context |-> query_context,
                   result_configuration |-> result_configuration,
                   client_request_token |-> client_request_token,
                   workgroup |-> workgroup]
             reqs == <<[api |-> "start_query_execution", params |-> params]>>
             lg == IF log_query THEN <<"info">> ELSE <<>>
         IN IF f.raised
            THEN Completes("run_query", a, reqs, lg, f, None, None, "ClientError")
            ELSE IF "QueryExecutionId" \notin f.keys
            THEN Completes("run_query", a, reqs, lg, f, None, None, "KeyError")
            ELSE Completes("run_query", a, reqs, lg \o <<"info">>, f, None,
                           f.QueryExecutionId, "none")

(* ------------------------ get_state_change_reason ---------------------- *)
get_state_change_reason(f) ==
    IF f.raised
    THEN [exc |-> "ClientError", val |-> None, logs |-> <<>>]
    ELSE LET reason == Lookup(f, "QueryExecution", "Status", "StateChangeReason")
         IN IF reason.exc # "none"
            THEN [exc |-> "none", val |-> None, logs |-> <<"exception">>]
            ELSE [exc |-> "none", val |-> reason.val, logs |-> <<>>]

GetStateChangeReason ==
    /\ Idle
    /\ \E e \in ExecIds : \E f \in GetQueryExecution(e) :
         LET r == get_state_change_reason(f) IN
         Completes("get_state_change_reason", [query_execution_id |-> e],
                   <<GetQueryExecutionRequest(e)>>, r.logs, f, None, r.val, r.exc)

(* --------------------------- get_query_results ------------------------- *)
NextTokens == {None, "", "nt"}
MaxResults == {1000, 10}

\* the page the service returns for an execution's results
PageOf(e) == IF e = "q1" THEN "page-q1" ELSE "page-q2"

\* get_query_results(**result_params): raises, or returns a page
GetQueryResults(e) == {[raised |-> TRUE, val |-> None], [raised |-> FALSE, val |-> PageOf(e)]}

\* the elif testing the intermediate states only
get_query_results_fetches_failed(state) ==
    IF state = None
    THEN FALSE
    ELSE IF state \in INTERMEDIATE_STATES
    THEN FALSE
    ELSE TRUE

\* the if/elif before the fetch: TRUE when the method goes on to fetch
get_query_results_fetches(state) ==
    IF state = None
    THEN FALSE
    ELSE IF state \in INTERMEDIATE_STATES \/ state \in FAILURE_STATES
    THEN FALSE
    ELSE TRUE

GetQueryResultsParams(e, next_token_id, max_results) ==
    LET result_params == [QueryExecutionId |-> e, MaxResults |-> max_results]
    IN IF next_token_id \notin {None, ""}
       THEN result_params @@ ("NextToken" :> next_token_id)
       ELSE result_params

GetQueryResultsCall ==
    /\ Idle
    /\ \E e \in ExecIds, next_token_id \in NextTokens, max_results \in MaxResults :
       \E f \in GetQueryExecution(e) :
         LET r == check_query_status(f)
             a == [query_execution_id |-> e, next_token_id |-> next_token_id,
                   max_results |-> max_results]
             check == <<GetQueryExecutionRequest(e)>>
             fetch == [api |-> "get_query_results",
                       params |-> GetQueryResultsParams(e, next_token_id, max_results)]
         IN IF r.exc # "none"
            THEN Completes("get_query_results", a, check, r.logs, f, None, None, r.exc)
            ELSE IF ~get_query_results_fetches(r.val)
            THEN Completes("get_query_results", a, check, r.logs \o <<"error">>, f,
                           r.val, None, "none")
            ELSE \E g \in GetQueryResults(e) :
                   Completes("get_query_results", a, check \o <<fetch>>, r.logs, f,
                             r.val, g.val, IF g.raised THEN "ClientError" ELSE "none")

(* ---------------------- get_query_results_paginator -------------------- *)
\* max_items, page_size: {} is None, {n} the integer n
MaxItems == {{}, {10}}
PageSizes == {{}, {5}}
StartingTokens == {None, "st"}

\* paginator.paginate(**result_params): raises, or returns a PageIterator
Paginate(e) == {[raised |-> TRUE, val |-> None], [raised |-> FALSE, val |-> "PageIterator"]}

\* the first if (the None test) left out
get_query_results_paginator_fetches_none(state) ==
    IF state \in INTERMEDIATE_STATES \/ state \in FAILURE_STATES
    THEN FALSE
    ELSE TRUE

\* the two ifs before the paginator is built: TRUE when the method goes on
get_query_results_paginator_fetches(state) ==
    IF state = None
    THEN FALSE
    ELSE IF state \in INTERMEDIATE_STATES \/ state \in FAILURE_STATES
    THEN FALSE
    ELSE TRUE

GetQueryResultsPaginatorCall ==
    /\ Idle
    /\ \E e \in ExecIds, max_items \in MaxItems, page_size \in PageSizes,
          starting_token \in StartingTokens :
       \E f \in GetQueryExecution(e) :
         LET r == check_query_status(f)
             a == [query_execution_id |-> e, max_items |-> max_items,
                   page_size |-> page_size, starting_token |-> starting_token]
             check == <<GetQueryExecutionRequest(e)>>
             fetch == [api |-> "paginate", operation |-> "get_query_results",
                       params |-> [QueryExecutionId |-> e,
                                   PaginationConfig |-> [MaxItems |-> max_items,
                                                         PageSize |-> page_size,
                                                         StartingToken |-> starting_token]]]
         IN IF r.exc # "none"
            THEN Completes("get_query_results_paginator", a, check, r.logs, f, None,
                           None, r.exc)
            ELSE IF ~get_query_results_paginator_fetches(r.val)
            THEN Completes("get_query_results_paginator", a, check,
                           r.logs \o <<"error">>, f, r.val, None, "none")
            ELSE \E g \in Paginate(e) :
                   Completes("get_query_results_paginator", a, check \o <<fetch>>,
                             r.logs, f, r.val, g.val,
                             IF g.raised THEN "ClientError" ELSE "none")

(* -------------------------- get_output_location ------------------------ *)
\* the id tested with "is not None": "" goes on to the fetch
get_output_location_empty_id(query_execution_id, f) ==
    IF query_execution_id # None
    THEN IF f.raised
         THEN [exc |-> "ClientError", val |-> None, logs |-> <<>>, fetched |-> TRUE]
         ELSE IF Truthy(f)
         THEN LET output_location ==
                      Lookup(f, "QueryExecution", "ResultConfiguration", "OutputLocation")
              IN IF output_location.exc # "none"
                 THEN [exc |-> "KeyError", val |-> None, logs |-> <<"error">>,
                       fetched |-> TRUE]
                 ELSE [exc |-> "none", val |-> output_location.val, logs |-> <<>>,
                       fetched |-> TRUE]
         ELSE [exc |-> "RuntimeError", val |-> None, logs |-> <<>>, fetched |-> TRUE]
    ELSE [exc |-> "ValueError", val |-> None, logs |-> <<>>, fetched |-> FALSE]

\* the KeyError logged and absorbed, as check_query_status does
get_output_location_absorbing(query_execution_id, f) ==
    IF query_execution_id \notin {None, ""}
    THEN IF f.raised
         THEN [exc |-> "ClientError", val |-> None, logs |-> <<>>, fetched |-> TRUE]
         ELSE IF Truthy(f)
         THEN LET output_location ==
                      Lookup(f, "QueryExecution", "ResultConfiguration", "OutputLocation")
              IN [exc |-> "none", val |-> output_location.val,
                  logs |-> IF output_location.exc # "none" THEN <<"error">> ELSE <<>>,
                  fetched |-> TRUE]
         ELSE [exc |-> "RuntimeError", val |-> None, logs |-> <<>>, fetched |-> TRUE]
    ELSE [exc |-> "ValueError", val |-> None, logs |-> <<>>, fetched |-> FALSE]

\* the method on an id and, for a truthy id, the client's answer f
get_output_location(query_execution_id, f) ==
    IF query_execution_id \notin {None, ""}
    THEN IF f.raised
         THEN [exc |-> "ClientError", val |-> None, logs |-> <<>>, fetched |-> TRUE]
         ELSE IF Truthy(f)
         THEN LET output_location ==
                      Lookup(f, "QueryExecution", "ResultConfiguration", "OutputLocation")
              IN IF output_location.exc # "none"
                 THEN [exc |-> "KeyError", val |-> None, logs |-> <<"error">>,
                       fetched |-> TRUE]
                 ELSE [exc |-> "none", val |-> output_location.val, logs |-> <<>>,
                       fetched |-> TRUE]
         \* a bare raise with no active exception
         ELSE [exc |-> "RuntimeError", val |-> None, logs |-> <<>>, fetched |-> TRUE]
    ELSE [exc |-> "ValueError", val |-> None, logs |-> <<>>, fetched |-> FALSE]

GetOutputLocation ==
    /\ Idle
    /\ \E e \in IdArgs : \E f \in GetQueryExecution(e) :
         LET r == get_output_location(e, f) IN
         Completes("get_output_location", [query_execution_id |-> e],
                   IF r.fetched THEN <<GetQueryExecutionRequest(e)>> ELSE <<>>,
                   r.logs, IF r.fetched THEN f ELSE NoResponse, None, r.val, r.exc)

(* ------------------------------ stop_query ----------------------------- *)
\* stop_query_execution(QueryExecutionId=e): raises, or returns its response
StopQueryExecution(e) ==
    {[raised |-> TRUE, val |-> None], [raised |-> FALSE, val |-> "stop-response"]}

\* a status fetch made before the cancel request
StopQuery_checks_status ==
    /\ Idle
    /\ \E e \in ExecIds : \E f \in GetQueryExecution(e), g \in StopQueryExecution(e) :
         Completes("stop_query", [query_execution_id |-> e],
                   <<GetQueryExecutionRequest(e),
                     [api |-> "stop_query_execution", QueryExecutionId |-> e]>>,
                   <<"info">>, g, None, g.val,
                   IF g.raised THEN "ClientError" ELSE "none")

StopQuery ==
    /\ Idle
    /\ \E e \in ExecIds : \E g \in StopQueryExecution(e) :
         Completes("stop_query", [query_execution_id |-> e],
                   <<[api |-> "stop_query_execution", QueryExecutionId |-> e]>>,
                   <<"info">>, g, None, g.val,
                   IF g.raised THEN "ClientError" ELSE "none")

(* --------------------------- poll_query_status ------------------------- *)
\* the comparison written as > instead of >=
AttemptsReached_strict(max_polling_attempts, n) ==
    \E m \in max_polling_attempts : m # 0 /\ n > m

\* "max_polling_attempts and try_number >= max_polling_attempts": None and 0
\* are falsy
AttemptsReached(max_polling_attempts, n) ==
    \E m \in max_polling_attempts : m # 0 /\ n >= m

\* lines 237-238: the locals before the loop
PollQueryStatus ==
    /\ Idle
    /\ \E e \in ExecIds, max_polling_attempts \in Budgets :
         /\ op' = "poll_query_status"
         /\ args' = [query_execution_id |-> e,
                     max_polling_attempts |-> max_polling_attempts]
    /\ pc' = "check"
    /\ try_number' = 1
    /\ final_query_state' = None
    /\ requests' = <<>>
    /\ logs' = <<>>
    /\ response' = NoResponse
    /\ query_state' = None
    /\ result' = None
    /\ error' = "none"
    /\ observed' = <<>>
    /\ sleeps' = <<>>
    /\ stopped' = -1
    /\ UNCHANGED config

\* the budget break without the assignment of line 266: final_query_state
\* keeps its initial None
PollIteration_budget_keeps_none ==
    /\ op = "poll_query_status"
    /\ pc = "check"
    /\ try_number <= MaxTry
    /\ \E f \in GetQueryExecution(args.query_execution_id) :
         LET r == check_query_status(f) IN
         /\ requests' = Append(requests, GetQueryExecutionRequest(args.query_execution_id))
         /\ response' = f
         /\ IF r.exc # "none"
            THEN /\ pc' = "raised"
                 /\ error' = r.exc
                 /\ logs' = logs \o r.logs
                 /\ UNCHANGED <<query_state, final_query_state, try_number, observed, result>>
            ELSE /\ query_state' = r.val
                 /\ observed' = Append(observed, r.val)
                 /\ logs' = logs \o r.logs \o <<"info">>
                 /\ error' = "none"
                 /\ IF r.val # None /\ r.val \in TERMINAL_STATES
                    THEN /\ final_query_state' = r.val
                         /\ result' = r.val
                         /\ pc' = "returned"
                         /\ UNCHANGED try_number
                    ELSE IF AttemptsReached(args.max_polling_attempts, try_number)
                    THEN /\ result' = final_query_state
                         /\ pc' = "returned"
                         /\ UNCHANGED <<try_number, final_query_state>>
                    ELSE /\ try_number' = try_number + 1
                         /\ pc' = "sleep"
                         /\ UNCHANGED <<final_query_state, result>>
    /\ UNCHANGED <<config, op, args, sleeps, stopped>>

\* a status kept from the previous pass: the fetch is made only while no
\* valid state is known
PollIteration_cached ==
    /\ op = "poll_query_status"
    /\ pc = "check"
    /\ try_number <= MaxTry
    /\ \E f \in GetQueryExecution(args.query_execution_id) :
         LET cached == query_state # None
             r == IF cached
                  THEN [exc |-> "none", val |-> query_state, logs |-> <<>>]
                  ELSE check_query_status(f)
         IN
         /\ requests' = IF cached THEN requests
                        ELSE Append(requests, GetQueryExecutionRequest(args.query_execution_id))
         /\ response' = IF cached THEN response ELSE f
         /\ IF r.exc # "none"
            THEN /\ pc' = "raised"
                 /\ error' = r.exc
                 /\ logs' = logs \o r.logs
                 /\ UNCHANGED <<query_state, final_query_state, try_number, observed, result>>
            ELSE /\ query_state' = r.val
                 /\ observed' = Append(observed, r.val)
                 /\ logs' = logs \o r.logs \o <<"info">>
                 /\ error' = "none"
                 /\ IF r.val # None /\ r.val \in TERMINAL_STATES
                    THEN /\ final_query_state' = r.val
                         /\ result' = r.val
                         /\ pc' = "returned"
                         /\ UNCHANGED try_number
                    ELSE IF AttemptsReached(args.max_polling_attempts, try_number)
                    THEN /\ final_query_state' = r.val
                         /\ result' = r.val
                         /\ pc' = "returned"
                         /\ UNCHANGED try_number
                    ELSE /\ try_number' = try_number + 1
                         /\ pc' = "sleep"
                         /\ UNCHANGED <<final_query_state, result>>
    /\ UNCHANGED <<config, op, args, sleeps, stopped>>

\* one pass of the while loop, up to the break or the sleep
PollIteration ==
    /\ op = "poll_query_status"
    /\ pc = "check"
    /\ try_number <= MaxTry
    /\ \E f \in GetQueryExecution(args.query_execution_id) :
         LET r == check_query_status(f) IN
         /\ requests' = Append(requests, GetQueryExecutionRequest(args.query_execution_id))
         /\ response' = f
         /\ IF r.exc # "none"
            THEN \* the exception leaves the loop and the method
                 /\ pc' = "raised"
                 /\ error' = r.exc
                 /\ logs' = logs \o r.logs
                 /\ UNCHANGED <<query_state, final_query_state, try_number, observed, result>>
            ELSE /\ query_state' = r.val
                 /\ observed' = Append(observed, r.val)
                 /\ logs' = logs \o r.logs \o <<"info">>
                 /\ error' = "none"
                 /\ IF r.val # None /\ r.val \in TERMINAL_STATES
                    THEN /\ final_query_state' = r.val
                         /\ result' = r.val
                         /\ pc' = "returned"
                         /\ UNCHANGED try_number
                    ELSE IF AttemptsReached(args.max_polling_attempts, try_number)
                    THEN /\ final_query_state' = r.val
                         /\ result' = r.val
                         /\ pc' = "returned"
                         /\ UNCHANGED try_number
                    ELSE /\ try_number' = try_number + 1
                         /\ pc' = "sleep"
                         /\ UNCHANGED <<final_query_state, result>>
    /\ UNCHANGED <<config, op, args, sleeps, stopped>>

\* the default interval slept instead of the configured one
PollSleep_default_interval ==
    /\ op = "poll_query_status"
    /\ pc = "sleep"
    /\ sleeps' = Append(sleeps, 30)
    /\ pc' = "check"
    /\ UNCHANGED <<config, op, args, result, error, requests, logs, response,
                   query_state, try_number, final_query_state, observed, stopped>>

\* sleep(self.sleep_time), then the next pass
PollSleep ==
    /\ op = "poll_query_status"
    /\ pc = "sleep"
    /\ sleeps' = Append(sleeps, sleep_time)
    /\ pc' = "check"
    /\ UNCHANGED <<config, op, args, result, error, requests, logs, response,
                   query_state, try_number, final_query_state, observed, stopped>>

(* ------------------------- stop_query elsewhere ------------------------ *)
\* another hook instance (another thread or task) calls stop_query on the
\* execution this hook is polling, and the service accepts the request; that
\* instance shares nothing with this one
\* the cancel taken as the end of the poll: the poll returns CANCELLED
\* without another status check
StopQueryElsewhere_ends_poll ==
    /\ op = "poll_query_status"
    /\ pc \in {"check", "sleep"}
    /\ stopped = -1
    /\ \E g \in StopQueryExecution(args.query_execution_id) :
         /\ ~g.raised
         /\ stopped' = Len(requests)
    /\ pc' = "returned"
    /\ result' = "CANCELLED"
    /\ final_query_state' = "CANCELLED"
    /\ UNCHANGED <<config, op, args, error, requests, logs, response,
                   query_state, try_number, observed, sleeps>>

StopQueryElsewhere ==
    /\ op = "poll_query_status"
    /\ pc \in {"check", "sleep"}
    /\ stopped = -1
    /\ \E g \in StopQueryExecution(args.query_execution_id) :
         /\ ~g.raised
         /\ stopped' = Len(requests)
    /\ UNCHANGED <<config, op, args, pc, result, error, requests, logs, response,
                   query_state, try_number, final_query_state, observed, sleeps>>

(* ------------------------------ the caller ----------------------------- *)
\* the call is over and its frame is gone; the instance keeps its two
\* attributes and nothing else
Return ==
    /\ Finished
    /\ op' = "none"
    /\ args' = [query_execution_id |-> None]
    /\ pc' = "idle"
    /\ result' = None
    /\ error' = "none"
    /\ requests' = <<>>
    /\ logs' = <<>>
    /\ response' = NoResponse
    /\ query_state' = None
    /\ NoLocals
    /\ UNCHANGED config

Init ==
    /\ sleep_time \in SleepTimes
    /\ log_query \in BOOLEAN
    /\ op = "none"
    /\ args = [query_execution_id |-> None]
    /\ pc = "idle"
    /\ result = None
    /\ error = "none"
    /\ requests = <<>>
    /\ logs = <<>>
    /\ response = NoResponse
    /\ query_state = None
    /\ try_number = 1
    /\ final_query_state = None
    /\ observed = <<>>
    /\ sleeps = <<>>
    /\ stopped = -1

Next ==
    \/ CheckQueryStatus
    \/ RunQuery
    \/ GetStateChangeReason
    \/ GetQueryResultsCall
    \/ GetQueryResultsPaginatorCall
    \/ GetOutputLocation
    \/ StopQuery
    \/ PollQueryStatus
    \/ PollIteration
    \/ PollSleep
    \/ StopQueryElsewhere
    \/ Return

Spec == Init /\ [][Next]_vars

(* ============================== properties ============================= *)
\* the spec's state groups, as the spec lists them
Intermediate == {"QUEUED", "RUNNING"}
Terminal == {"SUCCEEDED", "FAILED", "CANCELLED"}

\* requests of the running or finished call that go to the given API
RequestsTo(api) == {i \in 1..Len(requests) : requests[i].api = api}

\* the call's first request is the status fetch for the call's execution id
StatusFetchedFirst ==
    /\ Len(requests) >= 1
    /\ requests[1] = [api |-> "get_query_execution",
                      QueryExecutionId |-> args.query_execution_id]

\* positions of the poll's status checks that gave a Terminal state
TerminalChecks == {i \in 1..Len(observed) : observed[i] \in Terminal}

(* C1: check_query_status never raises, whatever the service does (a record *)
(* with a state, a record without the nested status field, or the fetch    *)
(* failing); it returns one of the five states or null, and null when the  *)
(* field is absent or the fetch fails.                                     *)
C1_CheckQueryStatusNeverRaises ==
    (op = "check_query_status" /\ Finished) =>
        /\ pc = "returned"
        /\ error = "none"
        /\ result \in QueryStates \cup {None}
        /\ (response.raised \/ "State" \notin response.keys) => result = None

(* C2: when poll_query_status has observed a Terminal state, that check is *)
(* the last one: the call has returned, the returned state is Terminal and *)
(* is the state of that check (the first Terminal one), and if it was the  *)
(* k-th check then exactly k status requests were sent.                    *)
C2_TerminalExit ==
    (op = "poll_query_status") =>
        \A k \in TerminalChecks :
            /\ k = Len(observed)
            /\ pc = "returned"
            /\ result \in Terminal
            /\ result = observed[k]
            /\ final_query_state = observed[k]
            /\ Len(requests) = k
            /\ RequestsTo("get_query_execution") = 1..k

C2_Witness ==
    /\ op = "poll_query_status"
    /\ pc = "returned"
    /\ observed = <<"QUEUED", "RUNNING", "SUCCEEDED">>
    /\ result = "SUCCEEDED"
    /\ Len(requests) = 3

(* C3: with max_polling_attempts = N >= 1, while no status check has given *)
(* a Terminal state, at most N checks are made; when N checks have given   *)
(* non-Terminal results (null or Intermediate) the call has returned the   *)
(* result of the N-th one after exactly N status requests, and it does not *)
(* return before the N-th check.                                           *)
C3_BudgetExit ==
    (op = "poll_query_status" /\ TerminalChecks = {}) =>
        \A N \in args.max_polling_attempts :
            N >= 1 =>
                /\ Len(requests) <= N
                /\ Len(observed) <= N
                /\ (Len(observed) = N) =>
                       /\ pc = "returned"
                       /\ result = observed[N]
                       /\ result \in Intermediate \cup {None}
                       /\ Len(requests) = N
                       /\ RequestsTo("get_query_execution") = 1..N
                /\ (pc = "returned") => Len(observed) = N

C3_Witness ==
    /\ op = "poll_query_status"
    /\ args.max_polling_attempts = {2}
    /\ pc = "returned"
    /\ observed = <<"RUNNING", "RUNNING">>
    /\ result = "RUNNING"
    /\ Len(requests) = 2

(* C4: without an attempt budget, poll_query_status ends only by returning *)
(* a Terminal state: never null, QUEUED or RUNNING, and never by an error. *)
C4_UnboundedEndsOnlyOnTerminal ==
    (op = "poll_query_status" /\ args.max_polling_attempts = {} /\ Finished) =>
        /\ pc = "returned"
        /\ result \in Terminal

(* C5: get_query_results first fetches the status; for a status of QUEUED, *)
(* RUNNING, FAILED, CANCELLED or null it returns no result and sends no    *)
(* get_query_results request; it sends one only for SUCCEEDED, and then    *)
(* returns the page the service gave.                                      *)
C5_ResultsGating ==
    (op = "get_query_results" /\ Finished) =>
        /\ StatusFetchedFirst
        /\ RequestsTo("get_query_execution") = {1}
        /\ (~response.raised) =>
              /\ (query_state \in {"QUEUED", "RUNNING", "FAILED", "CANCELLED", None}) =>
                    /\ pc = "returned"
                    /\ result = None
                    /\ RequestsTo("get_query_results") = {}
              /\ (RequestsTo("get_query_results") # {}) <=> (query_state = "SUCCEEDED")
              /\ (query_state = "SUCCEEDED") =>
                    /\ RequestsTo("get_query_results") = {2}
                    /\ requests[2].params.QueryExecutionId = args.query_execution_id
                    /\ (pc = "returned") => result = PageOf(args.query_execution_id)
        /\ response.raised => RequestsTo("get_query_results") = {}

C5_Witness ==
    /\ op = "get_query_results"
    /\ pc = "returned"
    /\ query_state = "FAILED"
    /\ result = None
    /\ Len(requests) = 1

(* C6: get_output_location with an empty or absent execution id fails with *)
(* the invalid-argument error (ValueError) and sends no request at all.    *)
C6_EmptyIdRejected ==
    (op = "get_output_location" /\ Finished /\ args.query_execution_id \in {"", None}) =>
        /\ pc = "raised"
        /\ error = "ValueError"
        /\ requests = <<>>

C6_Witness ==
    /\ op = "get_output_location"
    /\ args.query_execution_id = ""
    /\ pc = "raised"
    /\ error = "ValueError"

(* C7: get_output_location with a non-empty id returns only when the       *)
(* fetched record has the output-location field, and returns that field;   *)
(* without the field it raises the lookup's KeyError, on an empty response *)
(* it raises too, and a failed fetch propagates; it never returns null.    *)
C7_OutputLocationPropagates ==
    (op = "get_output_location" /\ Finished /\ args.query_execution_id \in ExecIds) =>
        /\ StatusFetchedFirst /\ Len(requests) = 1
        /\ (pc = "returned") <=> (~response.raised /\ "OutputLocation" \in response.keys)
        /\ (pc = "returned") =>
              /\ result = response.OutputLocation
              /\ result # None
        /\ (~response.raised /\ Truthy(response) /\ "OutputLocation" \notin response.keys)
              => error = "KeyError"
        /\ (~response.raised /\ ~Truthy(response)) => error = "RuntimeError"
        /\ response.raised => error = "ClientError"

C7_Witness ==
    /\ op = "get_output_location"
    /\ args.query_execution_id \in ExecIds
    /\ ~response.raised
    /\ "ResultConfiguration" \in response.keys
    /\ "OutputLocation" \notin response.keys
    /\ pc = "raised"
    /\ error = "KeyError"

(* C8: a status check that fails during poll_query_status (the fetch       *)
(* raising, or the status field absent) does not abort the loop: it counts *)
(* as a null result and the loop goes on.                                  *)
C8_FailedCheckDoesNotAbort ==
    (/\ op = "poll_query_status"
     /\ Len(requests) >= 1
     /\ (response.raised \/ "State" \notin response.keys)) =>
        /\ pc # "raised"
        /\ error = "none"
        /\ Len(observed) = Len(requests)
        /\ observed[Len(observed)] = None
        /\ query_state = None

(* C9: get_query_results_paginator gates exactly as get_query_results: for *)
(* the status either of them has fetched, the call returns no result with  *)
(* no further request exactly when the other method's test would refuse,   *)
(* and sends its paginate (resp. get_query_results) request exactly when   *)
(* the other method's test would go on to fetch.                           *)
C9_SameGating ==
    /\ (op = "get_query_results_paginator" /\ Finished /\ ~response.raised) =>
          /\ StatusFetchedFirst
          /\ (RequestsTo("paginate") # {}) <=> get_query_results_fetches(query_state)
          /\ (pc = "returned" /\ result = None /\ Len(requests) = 1)
                <=> ~get_query_results_fetches(query_state)
    /\ (op = "get_query_results" /\ Finished /\ ~response.raised) =>
          /\ StatusFetchedFirst
          /\ (RequestsTo("get_query_results") # {})
                <=> get_query_results_paginator_fetches(query_state)
          /\ (pc = "returned" /\ result = None /\ Len(requests) = 1)
                <=> ~get_query_results_paginator_fetches(query_state)

C9_Witness ==
    /\ op = "get_query_results_paginator"
    /\ query_state = "SUCCEEDED"
    /\ pc = "returned"
    /\ result = "PageIterator"
    /\ RequestsTo("paginate") = {2}

(* C10: run_query sends exactly one start_query_execution request carrying *)
(* the query, the context, the result configuration and the workgroup as   *)
(* passed; the request has a ClientRequestToken exactly when a (non-empty) *)
(* token was passed, and then it is that token; when the call returns, it  *)
(* returns the QueryExecutionId of the response.                           *)
C10_RunQueryRequest ==
    (op = "run_query" /\ Finished) =>
        /\ Len(requests) = 1
        /\ requests[1].api = "start_query_execution"
        /\ LET params == requests[1].params IN
             /\ params.QueryString = args.query
             /\ params.QueryExecutionContext = args.query_context
             /\ params.ResultConfiguration = args.result_configuration
             /\ params.WorkGroup = args.workgroup
             /\ ("ClientRequestToken" \in DOMAIN params)
                   <=> (args.client_request_token \notin {None, ""})
             /\ ("ClientRequestToken" \in DOMAIN params)
                   => params.ClientRequestToken = args.client_request_token
        /\ (pc = "returned") <=> (~response.raised /\ "QueryExecutionId" \in response.keys)
        /\ (pc = "returned") => result = response.QueryExecutionId

C10_Witness ==
    /\ op = "run_query"
    /\ pc = "returned"
    /\ args.client_request_token = "tok"
    /\ "ClientRequestToken" \in DOMAIN requests[1].params
    /\ result = "q2"

(* C11: stop_query sends exactly one stop_query_execution request, for the *)
(* id it was given, and no status fetch; it returns the client's response  *)
(* as it is (or lets the client's exception through), and the call leaves  *)
(* sleep_time and log_query as they were.                                  *)
C11_StopQueryFireAndForget ==
    /\ [](  (op = "stop_query" /\ Finished) =>
              /\ requests = <<[api |-> "stop_query_execution",
                               QueryExecutionId |-> args.query_execution_id]>>
              /\ RequestsTo("get_query_execution") = {}
              /\ (pc = "returned") <=> ~response.raised
              /\ (pc = "returned") => result = response.val
              /\ (pc = "raised") => (error = "ClientError" /\ result = None) )
    /\ [][ (op' = "stop_query" /\ op # "stop_query") =>
              (sleep_time' = sleep_time /\ log_query' = log_query) ]_vars

C11_Witness ==
    /\ op = "stop_query"
    /\ pc = "returned"
    /\ args.query_execution_id = "q2"
    /\ result = "stop-response"
    /\ Len(requests) = 1

(* C12: get_state_change_reason absorbs like check_query_status: when the  *)
(* reason field is absent or the fetch fails it returns null and raises    *)
(* nothing; otherwise it returns the reason string of the record.          *)
C12_ReasonAbsorbs ==
    (op = "get_state_change_reason" /\ Finished) =>
        /\ pc = "returned"
        /\ error = "none"
        /\ (response.raised \/ "StateChangeReason" \notin response.keys) => result = None
        /\ (~response.raised /\ "StateChangeReason" \in response.keys)
              => result = response.StateChangeReason

\* the sleeps of the poll so far: one after every status check but the latest
\* (none is pending once the next check is due), each of the configured length
SleepsBetweenChecks ==
    /\ \A i \in 1..Len(sleeps) : sleeps[i] = sleep_time
    /\ (pc = "check") => Len(sleeps) = Len(requests)
    /\ (pc \in {"sleep", "returned", "raised"}) => Len(sleeps) = Len(requests) - 1

(* C13 as stated: exactly k - 1 sleeps of the configured interval for k    *)
(* status checks, each between two checks, and the attempt counter always  *)
(* equal to the number of checks performed so far.                         *)
C13_CounterAlwaysEqualsChecks ==
    (op = "poll_query_status") =>
        /\ SleepsBetweenChecks
        /\ try_number = Len(requests)

(* C13 amended: exactly k - 1 sleeps of the configured interval for k      *)
(* status checks, each between two checks and none after the last one; the *)
(* attempt counter equals the number of checks performed so far during a   *)
(* check's iteration and when the call ends, and is one more than that     *)
(* before the first check and from the end of an iteration to the next     *)
(* check.                                                                  *)
C13_SleepsBetweenChecks ==
    /\ []( (op = "poll_query_status") =>
              /\ SleepsBetweenChecks
              /\ Finished => try_number = Len(requests)
              /\ (pc \in {"check", "sleep"}) => try_number = Len(requests) + 1 )
    /\ [][ (op = "poll_query_status" /\ Len(requests') = Len(requests) + 1) =>
              (try_number = Len(requests') /\ sleeps' = sleeps) ]_vars

C13_Witness ==
    /\ op = "poll_query_status"
    /\ pc = "returned"
    /\ Len(requests) = 3
    /\ sleeps = <<30, 30>>
    /\ try_number = 3

(* C14: whenever a max_polling_attempts limit is supplied, whatever        *)
(* integer it is (0 and 1 included), the loop exits at the end of the      *)
(* first iteration at which the attempt counter has reached the limit and  *)
(* returns the state of that iteration's check; a supplied limit never     *)
(* lets the poll go on.                                                    *)
C14_SuppliedLimitAlwaysExits ==
    (op = "poll_query_status") =>
        \A N \in args.max_polling_attempts :
            (Len(observed) >= 1 /\ Len(observed) >= N) =>
                /\ pc = "returned"
                /\ result = observed[Len(observed)]

\* the poll's budget has run out: a limit other than 0 that the number of
\* checks has reached
BudgetExpired == \E N \in args.max_polling_attempts : N # 0 /\ Len(observed) >= N

\* what poll_query_status returns is the state of its last check, which is
\* Terminal or else the one the budget ran out on
ReturnsLastObserved ==
    /\ Len(observed) >= 1
    /\ result = observed[Len(observed)]
    /\ result = final_query_state
    /\ result \in Terminal \/ (result \in Intermediate \cup {None} /\ BudgetExpired)

(* C15 as stated: the returned value is the Terminal state reached or the  *)
(* last observed state when the budget expired, and it is null only when   *)
(* no status check of that poll gave a valid (non-null) state.             *)
C15_NullOnlyIfNeverValid ==
    (op = "poll_query_status" /\ pc = "returned") =>
        /\ ReturnsLastObserved
        /\ (result = None) => \A i \in 1..Len(observed) : observed[i] = None

(* C15 amended: the returned value is the Terminal state reached or the    *)
(* last observed state when the budget expired, and it is null only when   *)
(* the budget expired on a check that gave no valid state, whatever the    *)
(* earlier checks gave.                                                    *)
C15_PollOutcome ==
    (op = "poll_query_status" /\ pc = "returned") =>
        /\ ReturnsLastObserved
        /\ (result = None) => (observed[Len(observed)] = None /\ BudgetExpired)

C15_Witness ==
    /\ op = "poll_query_status"
    /\ pc = "returned"
    /\ args.max_polling_attempts = {2}
    /\ observed = <<"RUNNING", None>>
    /\ result = None

(* C16: with a budget N >= 1 poll_query_status ends within N status checks *)
(* whatever the service does; without a budget it ends if and only if a    *)
(* status check reports a Terminal state, so it has not ended as long as   *)
(* no check has reported one.                                              *)
C16_EndsOnlyOnTerminalOrBudget ==
    (op = "poll_query_status") =>
        /\ \A N \in args.max_polling_attempts :
              N >= 1 => (Len(requests) <= N /\ (Len(requests) = N => Finished))
        /\ (args.max_polling_attempts = {}) => (Finished <=> TerminalChecks # {})

\* the state a get_query_execution answer carries (None without the field)
StateIn(resp) == IF "State" \in resp.keys THEN resp.State ELSE None

(* C17: no call changes sleep_time or log_query, and no status is kept:    *)
(* get_query_results and get_query_results_paginator decide on the status  *)
(* of the one status fetch they make themselves, and every pass of the     *)
(* poll loop sends one new status fetch for the polled id and logs,        *)
(* compares and returns the state that this fetch gave.                    *)
C17_NoCachedStatus ==
    /\ [][sleep_time' = sleep_time /\ log_query' = log_query]_vars
    /\ []( (op \in {"get_query_results", "get_query_results_paginator"} /\ Finished) =>
              /\ StatusFetchedFirst
              /\ RequestsTo("get_query_execution") = {1}
              /\ (~response.raised) => query_state = StateIn(response)
              /\ (Len(requests) = 2) => (~response.raised /\ StateIn(response) = "SUCCEEDED") )
    /\ [][ (op = "poll_query_status" /\ pc = "check" /\ pc' # "check") =>
              /\ requests' = Append(requests, [api |-> "get_query_execution",
                                               QueryExecutionId |-> args.query_execution_id])
              /\ (~response'.raised) =>
                    /\ query_state' = StateIn(response')
                    /\ observed' = Append(observed, StateIn(response'))
                    /\ (pc' = "returned") => result' = StateIn(response')
                    /\ (StateIn(response') \in Terminal) => pc' = "returned" ]_vars

C17_Witness ==
    /\ op = "poll_query_status"
    /\ pc = "returned"
    /\ args.max_polling_attempts = {2}
    /\ observed = <<"RUNNING", "QUEUED">>
    /\ result = "QUEUED"
    /\ Len(requests) = 2

(* C18: the state tuples partition the five states: each state is in       *)
(* exactly one of INTERMEDIATE_STATES and TERMINAL_STATES, TERMINAL_STATES *)
(* is SUCCESS_STATES with FAILURE_STATES, and these two are disjoint; so   *)
(* the poll loop stops on a state exactly when it is Terminal, and result  *)
(* access fetches for a state exactly when it is a Success state and       *)
(* refuses exactly when it is Intermediate or a Failure state.             *)
C18_StatePartition ==
    /\ \A s \in {"QUEUED", "RUNNING", "SUCCEEDED", "FAILED", "CANCELLED"} :
          (s \in INTERMEDIATE_STATES) # (s \in TERMINAL_STATES)
    /\ TERMINAL_STATES = SUCCESS_STATES \cup FAILURE_STATES
    /\ SUCCESS_STATES \cap FAILURE_STATES = {}
    /\ (op = "poll_query_status") =>
          \A i \in 1..Len(observed) :
              /\ (observed[i] \in SUCCESS_STATES \cup FAILURE_STATES)
                    => (i = Len(observed) /\ pc = "returned")
              /\ (observed[i] \in INTERMEDIATE_STATES /\ pc = "returned" /\ i = Len(observed))
                    => BudgetExpired
    /\ (/\ op \in {"get_query_results", "get_query_results_paginator"}
        /\ Finished
        /\ ~response.raised
        /\ query_state # None) =>
          /\ (Len(requests) = 2) <=> (query_state \in SUCCESS_STATES)
          /\ (Len(requests) = 1) <=> (query_state \in INTERMEDIATE_STATES \cup FAILURE_STATES)
          /\ (Len(requests) = 1) <=> (query_state \notin SUCCESS_STATES)

C18_Witness ==
    /\ op = "get_query_results"
    /\ pc = "returned"
    /\ query_state = "SUCCEEDED"
    /\ query_state \in TERMINAL_STATES
    /\ query_state \notin INTERMEDIATE_STATES
    /\ Len(requests) = 2
    /\ result = "page-q1"

(* C19: when start_query_execution fails, run_query has sent that one      *)
(* request and no other, the client's error leaves the call as it is, and  *)
(* no execution id is returned.                                            *)
C19_SubmitFailurePropagates ==
    (op = "run_query" /\ Finished /\ response.raised) =>
        /\ pc = "raised"
        /\ error = "ClientError"
        /\ result = None
        /\ Len(requests) = 1
        /\ RequestsTo("start_query_execution") = {1}

C19_Witness ==
    /\ op = "run_query"
    /\ response.raised
    /\ pc = "raised"
    /\ error = "ClientError"
    /\ Len(requests) = 1

(* C20: a stop_query issued elsewhere for the execution being polled does  *)
(* not itself end the poll nor touch its attempt counter, its observations *)
(* or its result; the poll learns of it only through a status check made   *)
(* after it: a poll that returns after the stop has made such a check, and *)
(* as soon as such a check reports a Terminal state (CANCELLED, or another *)
(* one reached earlier on the service) the poll returns that state.        *)
C20_StopSeenOnlyThroughCheck ==
    /\ [][ (stopped = -1 /\ stopped' >= 0) =>
              /\ stopped' = Len(requests)
              /\ UNCHANGED <<sleep_time, log_query, op, args, pc, result, error, requests,
                             response, query_state, try_number, final_query_state,
                             observed, sleeps>> ]_vars
    /\ []( (op = "poll_query_status" /\ stopped >= 0) =>
              /\ (pc = "returned") =>
                    /\ Len(requests) > stopped
                    /\ result = observed[Len(observed)]
              /\ \A i \in (stopped + 1)..Len(observed) :
                    (observed[i] \in Terminal) =>
                        /\ i = Len(observed)
                        /\ pc = "returned"
                        /\ result = observed[i]
                        /\ try_number = i )

C20_Witness ==
    /\ op = "poll_query_status"
    /\ stopped = 1
    /\ observed = <<"RUNNING", "CANCELLED">>
    /\ pc = "returned"
    /\ result = "CANCELLED"
=============================================================================
